---- MODULE Spec2Model ----
(***************************************************************************)
(* Model of conpot's serial-over-IP bridge,                                *)
(* src/conpot/protocols/serial_server/serial_server.py (class              *)
(* SerialServer): one poll loop over a listening socket, a serial device   *)
(* and the accepted client sockets.                                        *)
(*                                                                         *)
(* Python objects are modelled by identity records (TtyObj, ListenerObj,   *)
(* ClientSock(n)); an object's file descriptor is fdOf[obj], and close()    *)
(* was not called on it exactly while it is in the set open.  A socket      *)
(* that nothing references any more is finalized by the interpreter, which  *)
(* releases its descriptor; frame holds the local variables of handle()     *)
(* that can be such a last reference.  Dictionaries are functions, except   *)
(* self.addresses, which is iterated by the broadcast and by stop() and is  *)
(* therefore kept as a sequence of <<socket, address>> pairs in iteration   *)
(* order.                                                                   *)
(***************************************************************************)
EXTENDS Integers, Sequences, FiniteSets, TLC

\* Model bounds.
MaxClients == 2   \* accept() calls that may succeed in one run
MaxLog == 2       \* non-empty chunks received from clients in one run

\* Program constants.
ChunkSize == 80       \* sock.read(80), sock.recv(80)
SerialExitCode == 3   \* sys.exit(3)

\* Byte strings the device or a client may deliver in one read.
Chunks == {c \in {<<1>>, <<2, 3>>} : Len(c) <= ChunkSize}
Empty == << >>

\* Object identities.
TtyObj == [kind |-> "tty", n |-> 0]
ListenerObj == [kind |-> "listener", n |-> 0]
NoSock == [kind |-> "none", n |-> 0]
ClientSock(n) == [kind |-> "client", n |-> n]
IsClient(o) == o.kind = "client"
PeerAddr(sock) == sock.n

\* File descriptors: 0..2 are the standard streams, the kernel hands out the
\* lowest free number.
StdFds == {0, 1, 2}
Fds == 0 .. (Cardinality(StdFds) + 2 + MaxClients)
LowestFree(used) == CHOOSE f \in Fds : f \notin used /\ \A g \in 0 .. (f - 1) : g \in used

\* Event masks poll() may report for a handle registered with POLLIN.
Masks == {{"POLLIN"}, {"POLLIN", "POLLHUP"}}
IsHangup(mask) == mask \cap {"POLLHUP", "POLLERR", "POLLNVAL"} # {}

\* dict helpers.
Range(s) == {s[i] : i \in DOMAIN s}
MapSet(m, k, v) == [x \in DOMAIN m \cup {k} |-> IF x = k THEN v ELSE m[x]]
MapPop(m, k) == [x \in DOMAIN m \ {k} |-> m[x]]
MapGet(m, k, default) == IF k \in DOMAIN m THEN m[k] ELSE default
AddrKeys(a) == [i \in 1 .. Len(a) |-> a[i][1]]
AddrHas(a, s) == \E i \in 1 .. Len(a) : a[i][1] = s
AddrPop(a, s) == SelectSeq(a, LAMBDA p : p[1] # s)
\* a[s] = v: a new key takes the pos-th place of the iteration order.
AddrSet(a, s, v, pos) ==
    IF AddrHas(a, s)
    THEN [i \in 1 .. Len(a) |-> IF a[i][1] = s THEN <<s, v>> ELSE a[i]]
    ELSE SubSeq(a, 1, pos - 1) \o << <<s, v>> >> \o SubSeq(a, pos, Len(a))

VARIABLES
    pc,             \* "running": inside handle(); "stopped": start() is over; "failed": __init__ aborted
    exc,            \* the exception that left __init__ or start() ("none" if none)
    exitCode,       \* the argument of sys.exit, 0 while it was not called
    osErrorAlias,   \* the build: TRUE iff socket.error is OSError (Python 3, dicts in insertion order), which then covers
                    \* serial.SerialException; FALSE is Python 2 (dicts in hash order)
    fdOf,           \* object -> the descriptor it was created with
    open,           \* the objects whose close() was not called yet
    sockets,        \* self.sockets: fd -> object
    addresses,      \* self.addresses: insertion-ordered <<socket, address>> pairs
    bytes_to_send,  \* self.bytes_to_send: object -> bytes
    bytes_received, \* self.bytes_received: object -> bytes
    registered,     \* the descriptors registered with self.poller
    pending,        \* the descriptors the current poll() call reported and _all_events has not yielded yet
    received,       \* history: client -> the non-empty chunks recv() returned for it, in order
    written,        \* history: client -> the chunks handed to tty.write() for it, in order
    last,           \* history: the last operation and what it did
    frame           \* handle()'s locals sock and client, recorded while they can be the last reference to an open socket

vars == <<pc, exc, exitCode, osErrorAlias, fdOf, open, sockets, addresses,
          bytes_to_send, bytes_received, registered, pending, received, written, last,
          frame>>

\* The number of chunks a history holds for the clients in S.
RECURSIVE TotalLen(_, _)
TotalLen(log, S) ==
    IF S = {} THEN 0
    ELSE LET c == CHOOSE x \in S : TRUE IN Len(log[c]) + TotalLen(log, S \ {c})

\* The descriptors in use: those of the objects that were not closed and are
\* still referenced (an unreferenced socket is finalized, its descriptor freed).
UsedFds(op, fds, refs) == StdFds \cup {fds[o] : o \in op \cap refs}

\* The objects the bridge's attributes and dictionaries reference.
DictRefs(socks, addrs, brecv, bsend) ==
    {TtyObj, ListenerObj} \cup Range(socks) \cup Range(AddrKeys(addrs))
        \cup DOMAIN brecv \cup DOMAIN bsend

\* handle()'s frame with no socket in it.
NoFrame == [sock |-> NoSock, client |-> NoSock]

\* What is recorded of the locals: sock while it is the only reference to a
\* client socket that was not closed (a socket loses its other references only
\* in the hangup branch, which has it in sock), client while the socket it
\* names was not closed.
Pin(fr, op, refs) ==
    [sock |-> IF IsClient(fr.sock) /\ fr.sock \in op /\ fr.sock \notin refs
              THEN fr.sock ELSE NoSock,
     client |-> IF IsClient(fr.client) /\ fr.client \in op THEN fr.client ELSE NoSock]

CreatedClients == {o \in DOMAIN fdOf : IsClient(o)}

\* The clients being served: accepted, not closed by the bridge, and entered in
\* self.sockets under their descriptor.
Connected ==
    {c \in CreatedClients :
        c \in open /\ fdOf[c] \in DOMAIN sockets /\ sockets[fdOf[c]] = c}

\* The history record of an operation on sock: the clients connected when it
\* began, the chunk it read (data), for a client event how recv() ended (recv),
\* the clients send() was called on (sentTo) and the one whose send() raised
\* (failed), the exception raised inside the operation (exc), and whether the
\* operation was applied to something already stopped or removed (redo).
LastRec(op, sock) ==
    [op |-> op, sock |-> sock, data |-> Empty, connected |-> Connected,
     sentTo |-> << >>, failed |-> NoSock, recv |-> "none", exc |-> "none", redo |-> FALSE]

----------------------------------------------------------------------------
(* __init__ *)

\* A constructor that creates the listening socket before it opens the device.
InitOrderListenerFirst == <<"create_srv_socket", "setup_tty", "registry", "poller">>

\* The statements of __init__, in program order.
InitOrder == <<"setup_tty", "create_srv_socket", "registry", "poller">>

Blank ==
    [exc |-> "none", exitCode |-> 0, fdOf |-> << >>, open |-> {},
     sockets |-> << >>, registered |-> {}]

\* _setup_tty: tty.open() raising SerialException ends the process with sys.exit(3).
SetupTty(st, openOk) ==
    IF openOk
    THEN [st EXCEPT !.fdOf = MapSet(@, TtyObj, LowestFree(UsedFds(st.open, st.fdOf, {TtyObj, ListenerObj}))),
                    !.open = @ \cup {TtyObj}]
    ELSE [st EXCEPT !.exc = "SystemExit", !.exitCode = SerialExitCode]

\* _create_srv_socket: socket(), then bind()/listen(), which may raise socket.error.
CreateSrvSocket(st, bindOk) ==
    LET made == [st EXCEPT !.fdOf = MapSet(@, ListenerObj,
                                           LowestFree(UsedFds(st.open, st.fdOf, {TtyObj, ListenerObj}))),
                           !.open = @ \cup {ListenerObj}]
    IN  IF bindOk THEN made ELSE [made EXCEPT !.exc = "socket.error"]

\* fileno() of an object that was never created raises.
InitStep(step, st, openOk, bindOk) ==
    CASE step = "setup_tty" -> SetupTty(st, openOk)
      [] step = "create_srv_socket" -> CreateSrvSocket(st, bindOk)
      [] step = "registry" ->
            IF {ListenerObj, TtyObj} \subseteq st.open
            THEN [st EXCEPT !.sockets = MapSet(MapSet(@, st.fdOf[ListenerObj], ListenerObj),
                                               st.fdOf[TtyObj], TtyObj)]
            ELSE [st EXCEPT !.exc = "AttributeError"]
      [] step = "poller" ->
            IF {ListenerObj, TtyObj} \subseteq st.open
            THEN [st EXCEPT !.registered = {st.fdOf[ListenerObj], st.fdOf[TtyObj]}]
            ELSE [st EXCEPT !.exc = "AttributeError"]

RECURSIVE RunInit(_, _, _, _)
RunInit(steps, st, openOk, bindOk) ==
    IF steps = << >> \/ st.exc # "none"
    THEN st
    ELSE RunInit(Tail(steps), InitStep(Head(steps), st, openOk, bindOk), openOk, bindOk)

Init ==
    \E openOk \in BOOLEAN, bindOk \in BOOLEAN, alias \in BOOLEAN :
        LET st == RunInit(InitOrder, Blank, openOk, bindOk) IN
        /\ pc = IF st.exc = "none" THEN "running" ELSE "failed"
        /\ exc = st.exc
        /\ exitCode = st.exitCode
        /\ osErrorAlias = alias
        /\ fdOf = st.fdOf
        /\ open = st.open
        /\ sockets = st.sockets
        /\ addresses = << >>
        /\ bytes_to_send = << >>
        /\ bytes_received = << >>
        /\ registered = st.registered
        /\ pending = {}
        /\ received = << >>
        /\ written = << >>
        /\ last = [op |-> "init", sock |-> NoSock, data |-> Empty, connected |-> {},
                   sentTo |-> << >>, failed |-> NoSock, recv |-> "none",
                   exc |-> st.exc, redo |-> FALSE]
        /\ frame = NoFrame

----------------------------------------------------------------------------
(* start(), stop() *)

\* The exceptions the clauses "except socket.timeout" and "except socket.error"
\* take.  serial.SerialException derives from IOError, which is OSError, which
\* is socket.error on Python 3 and a separate class on Python 2;
\* serial.SerialTimeoutException derives from serial.SerialException.
IsSocketError(e) ==
    \/ e \in {"socket.error", "socket.timeout"}
    \/ osErrorAlias /\ e \in {"SerialException", "SerialTimeoutException"}

\* except socket.timeout / except socket.error in start().
StartCatches(e) == IsSocketError(e)

\* stop(): close every client in self.addresses, the tty and the listener.
StopClose(op, addrs) == op \ (Range(AddrKeys(addrs)) \cup {TtyObj, ListenerObj})

\* An exception e leaves handle(): start() swallows it or lets it pass, and its
\* finally clause runs stop() on the addresses the handler left.
Abort(e, code, addrs, op) ==
    /\ pc' = "stopped"
    /\ exc' = IF StartCatches(e) THEN "none" ELSE e
    /\ exitCode' = code
    /\ open' = StopClose(op, addrs)
    /\ pending' = {}

\* The locals after an event that left sock = s and client = c: handle()'s
\* frame is released once start() has caught the exception (left) that ended
\* handle(), and lives on in the traceback of one that start() lets pass.
AfterEvent(s, c, left) ==
    Pin(IF left # "none" /\ StartCatches(left) THEN NoFrame ELSE [sock |-> s, client |-> c],
        open', DictRefs(sockets', addresses', bytes_received', bytes_to_send'))

\* The handler returns and the loop goes on to the next event.
Continue(ev) ==
    /\ pending' = pending \ {ev.fd}
    /\ UNCHANGED <<pc, exc, exitCode>>

----------------------------------------------------------------------------
(* _all_events *)

\* self.poller.poll(500): one entry per ready registered descriptor, for any
\* non-empty set of them (an empty result changes nothing).  The entries are
\* yielded in any order, and the event mask of an entry is drawn when it is
\* yielded: nothing the bridge does between the poll() and the yield changes
\* what the kernel reported.
Poll ==
    /\ pc = "running"
    /\ pending = {}
    /\ \E s \in SUBSET registered :
          /\ s # {}
          /\ pending' = s
    /\ last' = LastRec("poll", NoSock)
    /\ UNCHANGED <<pc, exc, exitCode, osErrorAlias, fdOf, open, sockets, addresses,
                   bytes_to_send, bytes_received, registered, received, written, frame>>

\* The branch of handle() an event takes.  sock = self.sockets[fd] (line 124)
\* raises KeyError for a descriptor without an entry; poll() reports registered
\* descriptors only and each of them has its entry (NoStaleEvent), so no event
\* takes that branch.
Dispatch(ev) ==
    IF ev.fd \notin DOMAIN sockets THEN "lookup_error"
    ELSE IF IsHangup(ev.mask) THEN "hangup"
    ELSE IF "POLLIN" \in ev.mask
         THEN IF sockets[ev.fd] = ListenerObj THEN "accept"
              ELSE IF sockets[ev.fd] = TtyObj THEN "serial"
              ELSE "client"
    ELSE "ignore"

\* The (fd, event) pairs _all_events may yield next.  Once MaxClients clients
\* were accepted no further connection arrives: the listener is then reported
\* only with a hangup/error event.
Yields ==
    {[fd |-> f, mask |-> m] : f \in pending, m \in Masks}
        \ (IF Cardinality(CreatedClients) >= MaxClients /\ ListenerObj \in DOMAIN fdOf
           THEN {[fd |-> fdOf[ListenerObj], mask |-> {"POLLIN"}]}
           ELSE {})

Taking(branch, ev) ==
    /\ pc = "running"
    /\ Dispatch(ev) = branch

----------------------------------------------------------------------------
(* helpers of handle() *)

\* except socket.timeout / except socket.error around the serial read and the
\* broadcast; any other exception reaches "except Exception" and sys.exit(3).
SerialCatches(e) == IsSocketError(e)

\* _build_request / _build_response: append to the entry or create it.
BuildBuffer(buf, sock, raw_data) ==
    MapSet(buf, sock, MapGet(buf, sock, Empty) \o raw_data)

\* An _add_client that leaves out the poller registration.
AddClientNoRegister(sock, address, fd, pos) ==
    [sockets |-> MapSet(sockets, fd, sock),
     addresses |-> AddrSet(addresses, sock, address, pos),
     registered |-> registered]

\* _add_client: self.sockets[sock.fileno()] = sock; self.addresses[sock] = address;
\* self.poller.register(sock).  pos is the place the new key takes in the
\* iteration order of self.addresses.
AddClient(sock, address, fd, pos) ==
    [sockets |-> MapSet(sockets, fd, sock),
     addresses |-> AddrSet(addresses, sock, address, pos),
     registered |-> registered \cup {fd}]

\* The places a new key may take in the iteration order of a dict: the last
\* one where dicts keep insertion order, any where they are in hash order.
Slots(a) == IF osErrorAlias THEN {Len(a) + 1} ELSE 1 .. (Len(a) + 1)

\* A removal that closes the socket but keeps its address entry.
RemoveClientKeepAddress(sock) ==
    [addresses |-> addresses, registered |-> registered \ {fdOf[sock]},
     open |-> open \ {sock}, exc |-> "none"]

\* A removal that forgets every client address.
RemoveClientAll(sock) ==
    [addresses |-> << >>, registered |-> registered \ {fdOf[sock]},
     open |-> open \ {sock}, exc |-> "none"]

\* _remove_client: addresses.pop(sock, None); poller.unregister(sock); sock.close().
\* unregister raises for a closed socket (fileno() is -1 on Python 3: ValueError;
\* fileno() raises socket.error EBADF on Python 2) and for a descriptor that is
\* not registered; sock.close() is then not reached.
RemoveClient(sock) ==
    IF sock \notin open
    THEN [addresses |-> AddrPop(addresses, sock), registered |-> registered,
          open |-> open, exc |-> IF osErrorAlias THEN "ValueError" ELSE "socket.error"]
    ELSE IF fdOf[sock] \notin registered
    THEN [addresses |-> AddrPop(addresses, sock), registered |-> registered,
          open |-> open, exc |-> "KeyError"]
    ELSE [addresses |-> AddrPop(addresses, sock), registered |-> registered \ {fdOf[sock]},
          open |-> open \ {sock}, exc |-> "none"]

\* client.send(data) raises for the client the network fails (the bad-th of
\* the iteration, none if bad = 0) and for a closed socket.
SendFails(keys, i, bad) == i = bad \/ keys[i] \notin open

\* The position of the first send that raises, 0 if none does.
FirstFail(keys, bad) ==
    IF \E i \in 1 .. Len(keys) : SendFails(keys, i, bad)
    THEN CHOOSE i \in 1 .. Len(keys) :
            /\ SendFails(keys, i, bad)
            /\ \A j \in 1 .. (i - 1) : ~SendFails(keys, j, bad)
    ELSE 0

\* A broadcast that also delivers the chunk to the client accepted next.
BroadcastToNext(keys, bad) == Append(keys, ClientSock(Cardinality(CreatedClients) + 1))

\* for client in self.addresses.keys(): client.send(data), inside the try whose
\* "except socket.error" ends the loop at the first send that raises: the
\* clients send() was called on, in order.
Broadcast(keys, bad) ==
    IF FirstFail(keys, bad) = 0 THEN keys ELSE SubSeq(keys, 1, FirstFail(keys, bad))

\* A bridge whose hangup branch pops the address with a default.
PopNeverRaises(a, sock) == FALSE

\* self.addresses.pop(sock), without a default: KeyError for a missing key.
PopRaises(a, sock) == ~AddrHas(a, sock)

\* A bridge that lets a write timeout of the device leave handle().
WriteCatchesNothing(e) == FALSE

\* except serial.SerialTimeoutException around self.tty.write(data).
WriteCatches(e) == e = "SerialTimeoutException"

\* A bridge that forwards the client's accumulated request buffer.
WriteArgBuffer(data, buffer) == buffer

\* self.tty.write(data): what is handed to the device.
WriteArg(data, buffer) == data

----------------------------------------------------------------------------
(* handle(): one action per branch of the loop body *)

\* event & (POLLHUP | POLLERR | POLLNVAL)
HandleHangupOn(ev) ==
    /\ Taking("hangup", ev)
    /\ LET fd == ev.fd
           sock == sockets[fd]
           stale == IsClient(sock) /\ ~AddrHas(addresses, sock)
       IN  IF PopRaises(addresses, sock)
           THEN \* self.addresses.pop(sock) has no default: KeyError
                /\ Abort("KeyError", exitCode, addresses, open)
                /\ last' = [LastRec("hangup", sock) EXCEPT !.exc = "KeyError", !.redo = stale]
                /\ UNCHANGED <<sockets, addresses, bytes_to_send, bytes_received, registered>>
           ELSE IF fd \notin registered
           THEN \* self.poller.unregister(fd): KeyError, after the three pops
                /\ Abort("KeyError", exitCode, AddrPop(addresses, sock), open)
                /\ addresses' = AddrPop(addresses, sock)
                /\ bytes_received' = MapPop(bytes_received, sock)
                /\ bytes_to_send' = MapPop(bytes_to_send, sock)
                /\ last' = [LastRec("hangup", sock) EXCEPT !.exc = "KeyError"]
                /\ UNCHANGED <<sockets, registered>>
           ELSE /\ addresses' = AddrPop(addresses, sock)
                /\ bytes_received' = MapPop(bytes_received, sock)
                /\ bytes_to_send' = MapPop(bytes_to_send, sock)
                /\ registered' = registered \ {fd}
                /\ sockets' = MapPop(sockets, fd)
                /\ last' = LastRec("hangup", sock)
                /\ Continue(ev)
                /\ UNCHANGED open
    /\ UNCHANGED <<osErrorAlias, fdOf, received, written>>
    /\ frame' = AfterEvent(sockets[ev.fd], frame.client,
                            IF pc' = "stopped" THEN "KeyError" ELSE "none")

\* sock is self.listener: accept() and _add_client, or accept() raises.  The
\* local sock names the listener when accept() is called (line 124), so the
\* socket it named before is finalized unless client still names it, and the
\* kernel gives the new connection the lowest free descriptor.
HandleAcceptOn(ev) ==
    /\ Taking("accept", ev)
    /\ \/ /\ Cardinality(CreatedClients) < MaxClients
          /\ \E pos \in Slots(addresses) :
             LET sock == ClientSock(Cardinality(CreatedClients) + 1)
                 refs == DictRefs(sockets, addresses, bytes_received, bytes_to_send)
                             \cup {frame.client}
                 fd == LowestFree(UsedFds(open, fdOf, refs))
                 added == AddClient(sock, PeerAddr(sock), fd, pos)
             IN  /\ fdOf' = MapSet(fdOf, sock, fd)
                 /\ open' = open \cup {sock}
                 /\ sockets' = added.sockets
                 /\ addresses' = added.addresses
                 /\ registered' = added.registered
                 /\ last' = LastRec("accept", sock)
          /\ Continue(ev)
       \/ /\ Abort("socket.error", exitCode, addresses, open)
          /\ last' = [LastRec("accept", NoSock) EXCEPT !.exc = "socket.error"]
          /\ UNCHANGED <<fdOf, sockets, addresses, registered>>
    /\ UNCHANGED <<osErrorAlias, bytes_to_send, bytes_received, received, written>>
    /\ frame' = AfterEvent(last'.sock, frame.client,
                            IF pc' = "stopped" THEN "socket.error" ELSE "none")

\* sock is self.tty: read, broadcast, and the finally clause that pops the buffers.
HandleSerialOn(ev) ==
    /\ Taking("serial", ev)
    /\ LET sock == sockets[ev.fd]
           keys == AddrKeys(addresses)
       IN  /\ \/ \E data \in Chunks, bad \in 0 .. Len(keys) :
                    LET sentTo == Broadcast(keys, bad)
                        hit == FirstFail(keys, bad)
                    IN  /\ bytes_to_send' = MapPop(BuildBuffer(bytes_to_send, sock, data), TtyObj)
                        /\ last' = [LastRec("serial", sock) EXCEPT
                                        !.data = data, !.sentTo = sentTo,
                                        !.failed = IF hit = 0 THEN NoSock ELSE keys[hit],
                                        !.exc = IF hit = 0 THEN "none" ELSE "socket.error"]
                        /\ Continue(ev)
                        /\ UNCHANGED open
              \/ \* not data: raise serial.SerialException
                 /\ bytes_to_send' = MapPop(bytes_to_send, TtyObj)
                 /\ last' = [LastRec("serial", sock) EXCEPT !.exc = "SerialException"]
                 /\ IF SerialCatches("SerialException")
                    THEN Continue(ev) /\ UNCHANGED open
                    ELSE Abort("SystemExit", SerialExitCode, addresses, open)
           /\ bytes_received' = MapPop(bytes_received, sock)
    /\ UNCHANGED <<osErrorAlias, fdOf, sockets, addresses, registered, received, written>>
    /\ \* client names the last socket the for loop of the broadcast reached
       frame' = AfterEvent(TtyObj,
                           IF last'.sentTo = << >> THEN frame.client
                           ELSE last'.sentTo[Len(last'.sentTo)],
                           IF pc' = "stopped" THEN "SystemExit" ELSE "none")

\* sock is a client: recv, then _remove_client or tty.write.
HandleClientOn(ev) ==
    /\ Taking("client", ev)
    /\ LET sock == sockets[ev.fd] IN
       \/ \* sock.recv(80) raises
          /\ Abort("socket.error", exitCode, addresses, open)
          /\ last' = [LastRec("client", sock) EXCEPT !.recv = "error", !.exc = "socket.error"]
          /\ UNCHANGED <<addresses, bytes_received, registered, received, written>>
       \/ \* not data: end of file
          /\ sock \in open
          /\ LET rm == RemoveClient(sock) IN
              /\ addresses' = rm.addresses
              /\ registered' = rm.registered
              /\ last' = [LastRec("client", sock) EXCEPT !.recv = "empty", !.exc = rm.exc]
              /\ IF rm.exc = "none"
                 THEN Continue(ev) /\ open' = rm.open
                 ELSE Abort(rm.exc, exitCode, rm.addresses, rm.open)
          /\ UNCHANGED <<bytes_received, received, written>>
       \/ \* data: _build_request, tty.write
          /\ sock \in open
          /\ TotalLen(received, DOMAIN received) < MaxLog
          /\ \E data \in Chunks, w \in {"ok", "SerialTimeoutException", "SerialException"} :
              /\ received' = MapSet(received, sock, Append(MapGet(received, sock, << >>), data))
              /\ bytes_received' = BuildBuffer(bytes_received, sock, data)
              /\ IF ~AddrHas(addresses, sock)
                 THEN \* self.addresses[sock] in _build_request: KeyError
                      /\ Abort("KeyError", exitCode, addresses, open)
                      /\ last' = [LastRec("client", sock) EXCEPT
                                      !.recv = "data", !.data = data, !.exc = "KeyError"]
                      /\ UNCHANGED written
                 ELSE /\ written' = MapSet(written, sock,
                                Append(MapGet(written, sock, << >>),
                                       WriteArg(data, BuildBuffer(bytes_received, sock, data)[sock])))
                      /\ last' = [LastRec("client", sock) EXCEPT
                                      !.recv = "data", !.data = data,
                                      !.exc = IF w = "ok" THEN "none" ELSE w]
                      /\ IF w = "ok" \/ WriteCatches(w)
                         THEN Continue(ev) /\ UNCHANGED open
                         ELSE Abort(w, exitCode, addresses, open)
          /\ UNCHANGED <<addresses, registered>>
    /\ UNCHANGED <<osErrorAlias, fdOf, sockets, bytes_to_send>>
    /\ frame' = AfterEvent(sockets[ev.fd], frame.client,
                            IF pc' = "stopped" THEN last'.exc ELSE "none")

HandleHangup == \E ev \in Yields : HandleHangupOn(ev)
HandleAccept == \E ev \in Yields : HandleAcceptOn(ev)
HandleSerial == \E ev \in Yields : HandleSerialOn(ev)
HandleClient == \E ev \in Yields : HandleClientOn(ev)

Next ==
    \/ Poll
    \/ HandleHangup
    \/ HandleAccept
    \/ HandleSerial
    \/ HandleClient

Spec == Init /\ [][Next]_vars

----------------------------------------------------------------------------
(* The operations called directly, as a test or an embedding program calls    *)
(* them: stop() after start() is over, and _remove_client(sock) on a client   *)
(* socket taken from the bridge's dictionaries.                               *)

\* stop() once more.
CallStop ==
    /\ pc = "stopped"
    /\ open' = StopClose(open, addresses)
    /\ last' = [LastRec("stop", NoSock) EXCEPT !.redo = TRUE]
    /\ UNCHANGED <<pc, exc, exitCode, osErrorAlias, fdOf, sockets, addresses, bytes_to_send,
                   bytes_received, registered, pending, received, written>>
    /\ frame' = Pin(frame, open', DictRefs(sockets, addresses, bytes_received, bytes_to_send))

\* _remove_client(sock) between two poll() calls, on a client socket taken from
\* the bridge's dictionaries; an exception goes to the caller.
CallRemoveClient ==
    /\ pc = "running"
    /\ pending = {}
    /\ \E sock \in CreatedClients \cap DictRefs(sockets, addresses, bytes_received, bytes_to_send) :
          LET rm == RemoveClient(sock) IN
          /\ addresses' = rm.addresses
          /\ registered' = rm.registered
          /\ open' = rm.open
          /\ last' = [LastRec("remove", sock) EXCEPT
                          !.exc = rm.exc, !.redo = ~AddrHas(addresses, sock)]
    /\ UNCHANGED <<pc, exc, exitCode, osErrorAlias, fdOf, sockets, bytes_to_send,
                   bytes_received, pending, received, written>>
    /\ frame' = Pin(frame, open', DictRefs(sockets, addresses', bytes_received, bytes_to_send))

NextApi ==
    \/ Next
    \/ CallStop
    \/ CallRemoveClient

SpecApi == Init /\ [][NextApi]_vars

----------------------------------------------------------------------------
(* Properties *)

\* Every descriptor of the current poll() result is still registered and has
\* its entry in self.sockets when _all_events yields it.
NoStaleEvent == pending \subseteq registered \cap DOMAIN sockets

\* The chunks a history holds for client c, in order.
ChunksOf(log, c) == MapGet(log, c, << >>)

InRegistry(c) ==
    \/ AddrHas(addresses, c)
    \/ \E fd \in DOMAIN sockets : sockets[fd] = c

IsBroadcast == last.op = "serial" /\ last.data # Empty

\* An event that tells the bridge a client is gone: a hangup/error event on it, or
\* a readable event whose recv() returns nothing or raises.
IsDisconnect ==
    /\ IsClient(last.sock)
    /\ \/ last.op = "hangup"
       \/ last.op = "client" /\ last.recv \in {"empty", "error"}

\* C1 (as claimed): a non-empty chunk read from the serial device is sent, with
\* one send() each, to every client connected when the event was serviced.
C1_BroadcastFanout ==
    IsBroadcast =>
        /\ Range(last.sentTo) = last.connected
        /\ Len(last.sentTo) = Cardinality(last.connected)

\* C2 (as claimed): when the send to one client raises during a broadcast, the
\* chunk is still sent to every other connected client.
C2_BroadcastFailureIsolation ==
    (IsBroadcast /\ last.failed # NoSock) =>
        \A c \in last.connected \ {last.failed} : c \in Range(last.sentTo)

\* C3 (as claimed): when client A disconnects while another client B is
\* connected, then whichever event reports it (hangup, empty recv, failing recv)
\* the bridge keeps running, A is gone from the registry, and B is still open,
\* registered and a recipient of the next broadcast.
C3_DisconnectIsolation ==
    (IsDisconnect /\ last.connected \ {last.sock} # {}) =>
        /\ pc = "running"
        /\ ~InRegistry(last.sock)
        /\ \A b \in last.connected \ {last.sock} :
              /\ b \in Connected
              /\ fdOf[b] \in registered
              /\ AddrHas(addresses, b)

\* C4 (as claimed): a failure on one client socket (recv() raising, send()
\* raising during a broadcast, a hangup/error event on the client) never ends
\* the run loop, so start() does not reach stop().
C4_ClientFailureContained ==
    (\/ last.op = "client" /\ last.recv = "error"
     \/ IsBroadcast /\ last.failed # NoSock
     \/ last.op = "hangup" /\ IsClient(last.sock)) =>
        pc = "running"

\* C5 (as claimed): a read of zero bytes from the serial device ends the run
\* loop and shuts the bridge down: every connected client, the serial device
\* and the listener are closed.
C5_SerialDisconnectShutsDown ==
    (last.op = "serial" /\ last.data = Empty) =>
        /\ pc = "stopped"
        /\ open \cap (last.connected \cup {TtyObj, ListenerObj}) = {}

\* C6 (as claimed): between events of the run loop the descriptors registered
\* with the poller are exactly the descriptors that have an entry in self.sockets.
C6_RegistryInvariant ==
    pc = "running" => registered = DOMAIN sockets

\* C7: for each client, the chunks handed to tty.write() are exactly the
\* non-empty chunks received from it, in order, one write per chunk.
C7_PassThroughIntegrity ==
    \A c \in CreatedClients :
        /\ ChunksOf(written, c) = ChunksOf(received, c)
        /\ \A i \in 1 .. Len(ChunksOf(written, c)) : ChunksOf(written, c)[i] # Empty

\* A client has sent two different chunks and both reached tty.write().
C7_Witness ==
    \E c \in CreatedClients :
        /\ Len(ChunksOf(received, c)) >= 2
        /\ ChunksOf(received, c)[1] # ChunksOf(received, c)[2]
        /\ Len(ChunksOf(written, c)) >= 2

\* C8 (as claimed): stop() after stop(), _remove_client on a client already
\* removed, and a hangup event for a handle already removed raise nothing and
\* leave the registry as it was.
C8_IdempotentTeardown ==
    [][last'.redo =>
          /\ last'.exc = "none"
          /\ sockets' = sockets
          /\ addresses' = addresses
          /\ registered' = registered]_vars

\* C9: when opening the serial device fails, construction ends with
\* sys.exit(3) before the listener exists: no listening socket, no poller
\* registration and no registry entry.
C9_StartupFailureOrdering ==
    (pc = "failed" /\ TtyObj \notin open) =>
        /\ exc = "SystemExit"
        /\ exitCode = SerialExitCode
        /\ ListenerObj \notin DOMAIN fdOf
        /\ registered = {}
        /\ DOMAIN sockets = {}

\* Construction has failed at the serial device.
C9_Witness == pc = "failed" /\ TtyObj \notin open /\ last.exc = "SystemExit"

\* C10 (as claimed): an accepted client socket is closed when the client is
\* removed, and none is open once stop() has run.
C10_ClientSocketLifecycle ==
    /\ pc = "running" => \A c \in CreatedClients : c \in open => c \in Connected
    /\ pc = "stopped" => CreatedClients \cap open = {}

\* C11 (as claimed): after a hangup/error event on the listener, the serial
\* endpoint or a client was serviced, the handle has no tracking buffer, is not
\* registered with the poller and has no entry in self.sockets.
C11_HangupHandling ==
    last.op = "hangup" =>
        /\ last.sock \notin DOMAIN bytes_received
        /\ last.sock \notin DOMAIN bytes_to_send
        /\ fdOf[last.sock] \notin registered
        /\ \A fd \in DOMAIN sockets : sockets[fd] # last.sock

\* C12: a hangup/error event on the serial endpoint ends the run loop and the
\* bridge shuts down (every client connected at that moment, the serial device
\* and the listener are closed); a hangup/error event on a client leaves the
\* run loop running.
C12_SerialHangupFatal ==
    /\ (last.op = "hangup" /\ last.sock = TtyObj) =>
          /\ pc = "stopped"
          /\ open \cap (last.connected \cup {TtyObj, ListenerObj}) = {}
    /\ (last.op = "hangup" /\ IsClient(last.sock)) => pc = "running"

\* The serial endpoint hung up while a client was connected.
C12_Witness ==
    /\ last.op = "hangup"
    /\ last.sock = TtyObj
    /\ last.connected # {}
    /\ pc = "stopped"

\* A client was removed by the last event: a hangup/error event on it, or a
\* readable event whose recv() returned nothing.
IsRemoval ==
    /\ IsClient(last.sock)
    /\ \/ last.op = "hangup"
       \/ last.op = "client" /\ last.recv = "empty"

\* C13: the event that removes one client (an empty recv() or a hangup/error
\* event on it) leaves the self.sockets entries, the address entries, the
\* poller registrations and the open/closed state of every other client, of
\* the listener and of the serial endpoint as they were.
C13_RemovalFrame ==
    [][IsRemoval' =>
          LET s == last'.sock IN
          /\ pc' = "running"
          /\ \A fd \in DOMAIN sockets :
                sockets[fd] # s => fd \in DOMAIN sockets' /\ sockets'[fd] = sockets[fd]
          /\ DOMAIN sockets' \subseteq DOMAIN sockets
          /\ AddrPop(addresses', s) = AddrPop(addresses, s)
          /\ registered' \ {fdOf[s]} = registered \ {fdOf[s]}
          /\ open' \ {s} = open \ {s}]_vars

\* A client was removed by an empty recv() while another client was connected.
C13_Witness ==
    /\ IsRemoval
    /\ last.recv = "empty"
    /\ last.connected \ {last.sock} # {}
    /\ last.sock \notin open

\* C15: a chunk read from the serial device is sent only to clients that were
\* accepted and connected when it was broadcast, and accepting a client sends
\* nothing: a client accepted later in the same poll cycle gets no bytes
\* broadcast before its acceptance.
C15_NoRetroactiveBroadcast ==
    /\ IsBroadcast => Range(last.sentTo) \subseteq last.connected
    /\ last.op = "accept" => last.sentTo = << >>

\* A chunk was broadcast to a client while the listener's event of the same
\* poll cycle is still to be serviced and a connection can be accepted.
C15_Witness ==
    /\ IsBroadcast
    /\ last.sentTo # << >>
    /\ fdOf[ListenerObj] \in pending
    /\ Cardinality(CreatedClients) < MaxClients

\* C16: when tty.write() of a client's chunk raises a write timeout, the run
\* loop goes on, the client keeps its self.sockets entry, its address entry,
\* its poller registration and its open socket, and the chunk was handed to
\* tty.write() once (no retry); and every chunk received from a client,
\* whatever earlier writes did, is handed to tty.write().
C16_WriteTimeoutRecoverable ==
    [][LET s == last'.sock IN
       /\ (last'.op = "client" /\ last'.exc = "SerialTimeoutException") =>
             /\ pc' = "running"
             /\ s \in Connected'
             /\ AddrHas(addresses', s)
             /\ fdOf'[s] \in registered'
             /\ ChunksOf(written', s) = Append(ChunksOf(written, s), last'.data)
       /\ (last'.op = "client" /\ last'.recv = "data") =>
             ChunksOf(written', s) = Append(ChunksOf(written, s), last'.data)]_vars

\* The write of a client's first chunk timed out, the client is still served
\* and the run has room for a later chunk from it.
C16_Witness ==
    /\ last.op = "client"
    /\ last.exc = "SerialTimeoutException"
    /\ pc = "running"
    /\ Len(ChunksOf(written, last.sock)) = 1
    /\ TotalLen(received, DOMAIN received) < MaxLog
    /\ fdOf[last.sock] \in registered

\* C17: a readable event on the listener whose accept() returns adds exactly
\* one client: the new socket has its self.sockets entry, its address entry
\* and its poller registration, the clients connected before are all still
\* connected, with their address and registration, and nobody else is; the
\* number of clients already connected does not matter.
C17_AcceptStep ==
    (last.op = "accept" /\ last.exc = "none") =>
        /\ IsClient(last.sock)
        /\ last.sock \notin last.connected
        /\ Connected = last.connected \cup {last.sock}
        /\ Len(addresses) = Cardinality(Connected)
        /\ \A c \in Connected :
              /\ AddrHas(addresses, c)
              /\ fdOf[c] \in registered
        /\ \E i \in 1 .. Len(addresses) :
              addresses[i] = <<last.sock, PeerAddr(last.sock)>>

\* A connection was accepted while every other client the run may create was
\* connected.
C17_Witness ==
    /\ last.op = "accept"
    /\ last.exc = "none"
    /\ Cardinality(last.connected) = MaxClients - 1
    /\ Cardinality(Connected) = MaxClients

\* C18 (as claimed): between events of the run loop self.bytes_received has no
\* entry for a client that is not connected any more, and self.bytes_to_send
\* is empty once a serial read event was handled.
C18_BuffersDoNotOutliveOwner ==
    pc = "running" =>
        /\ \A c \in DOMAIN bytes_received : IsClient(c) => c \in Connected
        /\ last.op = "serial" => bytes_to_send = << >>

\* C19: while the run loop is running every key of self.addresses is a client
\* that is open, registered with the poller and entered in self.sockets under
\* its descriptor; send() is called only on open clients and recv() only on a
\* client that was connected when its event arrived.
C19_NoIoOnClosedClient ==
    /\ pc = "running" =>
          \A c \in Range(AddrKeys(addresses)) :
              /\ c \in Connected
              /\ fdOf[c] \in registered
    /\ IsBroadcast => Range(last.sentTo) \subseteq open \cap last.connected
    /\ last.op = "client" => last.sock \in last.connected

\* A chunk was broadcast to a client that was accepted on the descriptor
\* number of a client the bridge had closed before.
C19_Witness ==
    /\ IsBroadcast
    /\ \E a \in CreatedClients, b \in Range(last.sentTo) :
          /\ a \notin open
          /\ b \in open
          /\ fdOf[a] = fdOf[b]

====
